---- MODULE Spec2Model ----
(***************************************************************************)
(* Shift scheduler: the schedule generator and the iCal exporter of the    *)
(* two sibling pages of the repository, and the two click handlers that    *)
(* connect them through the page-global lastEvents.                        *)
(*                                                                         *)
(*   "roles"   page : src/unnamed/part_000  (Hospital / ODC / OFF rotation)*)
(*   "single"  page : src/app.js           (one duty person per week)     *)
(*                                                                         *)
(* A Date is the number of minutes of local (floating) time since          *)
(* 1970-01-01T00:00 local.  The local zone has a fixed offset from UTC     *)
(* (no daylight-saving change inside the generated span), so a calendar    *)
(* day is 1440 minutes and the order of Dates is the order of epoch times. *)
(***************************************************************************)
EXTENDS Integers, Sequences, FiniteSets, TLC

VARIABLES
    variant,          \* which page is loaded: "roles" or "single"
    tz,               \* offset of the local zone from UTC, in minutes
    form,             \* the values currently in the form fields
    lastEvents,       \* let lastEvents = []
    downloadDisabled, \* downloadBtn.disabled
    alertMsg,         \* text of the last alert() shown, "" if none
    download,         \* the last file offered for download, NoFile if none
    lastCall,         \* history: the last generateSchedule call and its outcome
    lastGood,         \* history: what the last call that returned has returned
    lastExport        \* history: the last exportICS call

vars == <<variant, tz, form, lastEvents, downloadDisabled, alertMsg,
          download, lastCall, lastGood, lastExport>>

(***************************************************************************)
(* Bounds of the model.                                                    *)
(***************************************************************************)
\* years is entered in steps of 0.007: years = yearsK / 1000 with
\* yearsK = 7 * k for k in 0..MaxYearsSteps, which gives spans of
\* 0, 2, 5, 7, 10 and 12 days
MaxYearsSteps == 5
\* the uid generator and the wall clock are sampled from 0..MaxSeed
MaxSeed == 1
\* rotation properties are looked at for the weeks 0..MaxWeek
MaxWeek == 8

MinutesPerDay == 1440

(***************************************************************************)
(* Helpers.                                                                *)
(***************************************************************************)
\* parseTime: "HH:MM" split on ':' and converted with Number; the text is
\* represented by the pair of its two numerals, which are not range checked.
parseTime(t) == [h |-> t[1], m |-> t[2]]

\* addDays: setDate(getDate() + days) keeps the local time of day.
addDays(date, days) == date + days * MinutesPerDay

\* new Date("YYYY-MM-DD"): a date-only string is UTC midnight of that day;
\* day is the day number of the string since 1970-01-01.
NewDateFromISO(day, offset) == day * MinutesPerDay + offset

\* Date.prototype.setHours(h, m, 0, 0): local midnight of the same local day
\* plus h hours and m minutes; out-of-range values roll over.
setHours(date, h, m) == (date \div MinutesPerDay) * MinutesPerDay + h * 60 + m

\* String(n).padStart(2, "0")
pad(n) == IF n >= 0 /\ n < 10 THEN "0" \o ToString(n) ELSE ToString(n)

\* The local calendar fields of a Date (getFullYear, getMonth() + 1, getDate,
\* getHours, getMinutes), proleptic Gregorian calendar.
CivilFields(date) ==
    LET z    == (date \div MinutesPerDay) + 719468
        era  == z \div 146097
        doe  == z - era * 146097
        yoe  == (doe - (doe \div 1460) + (doe \div 36524) - (doe \div 146096)) \div 365
        doy  == doe - (365 * yoe + (yoe \div 4) - (yoe \div 100))
        mp   == (5 * doy + 2) \div 153
        dd   == doy - ((153 * mp + 2) \div 5) + 1
        mm   == IF mp < 10 THEN mp + 3 ELSE mp - 9
        yy   == yoe + era * 400 + (IF mm <= 2 THEN 1 ELSE 0)
        mod  == date % MinutesPerDay
    IN  [year |-> yy, month |-> mm, day |-> dd,
         hours |-> mod \div 60, minutes |-> mod % 60]

\* toICSDateTime: YYYYMMDDTHHMM00, floating local time
toICSDateTime(d) ==
    LET c == CivilFields(d)
    IN  ToString(c.year) \o pad(c.month) \o pad(c.day) \o "T"
          \o pad(c.hours) \o pad(c.minutes) \o "00"

buildEvent(title, start, end) == [title |-> title, start |-> start, end |-> end]

\* people[i] of a JavaScript array (0-based); a missing index reads undefined,
\* which a template literal renders as the text "undefined".
ArrayAt(people, i) ==
    IF i >= 0 /\ i < Len(people) THEN people[i + 1] ELSE "undefined"

\* Math.floor(years * 365.25) for years = yearsK / 1000
TotalDays(yearsK) == (yearsK * 36525) \div 100000

\* Math.ceil(totalDays / 7)
WeeksTotal(totalDays) == (totalDays + 6) \div 7

\* (w % k) === 0 ; w % 0 is NaN, and NaN === 0 is false
ModIsZero(w, k) == IF k = 0 THEN FALSE ELSE w % k = 0

isLaneWeek(p, w) == ModIsZero(w, p.lanePatternWeeks)

\* Variant of isLaneWeekend: the cadence is counted from week 1.
isLaneWeekend_FromWeekOne(p, w) == ModIsZero(w + 1, p.laneWeekendEvery)

isLaneWeekend(p, w) == ModIsZero(w, p.laneWeekendEvery)

\* An event on the local day of date with the given "HH:MM" window.
WindowEvent(title, date, startTime, endTime) ==
    LET s == parseTime(startTime)
        e == parseTime(endTime)
    IN  buildEvent(title, setHours(date, s.h, s.m), setHours(date, e.h, e.m))

(***************************************************************************)
(* Rotation of the "roles" page.                                           *)
(***************************************************************************)
HospitalPos(w, n) == w % n

\* Variant of OdcPos: the offset is added after the remainder is taken.
OdcPos_NoWrap(w, n) == (w % n) + 1

OdcPos(w, n) == (w + 1) % n
OffPos(w, n) == (w + 2) % n

hospitalForWeek(people, w) == ArrayAt(people, HospitalPos(w, Len(people)))
odcForWeek(people, w) == ArrayAt(people, OdcPos(w, Len(people)))
offForWeek(people, w) == ArrayAt(people, OffPos(w, Len(people)))

(***************************************************************************)
(* Rotation of the "single" page.                                          *)
(***************************************************************************)
\* people[weekIndex % rotationWeeks]; an index of NaN reads undefined
personForWeek(p, weekIndex) ==
    IF p.rotationWeeks = 0 THEN "undefined"
    ELSE ArrayAt(p.rotationOrder, weekIndex % p.rotationWeeks)

(***************************************************************************)
(* The events pushed for one weekday.                                      *)
(***************************************************************************)
\* Variant of RolesDayShifts: the second OFF event of a lane day is pushed
\* on doubleOffOnLaneWeeks alone.
RolesDayShifts_DoubleOffAlone(p, week, date) ==
    LET people     == p.rotationOrder
        hospPerson == hospitalForWeek(people, week)
        odcPerson  == odcForWeek(people, week)
        offPerson  == offForWeek(people, week)
        hosp == <<WindowEvent("HOSPITAL " \o hospPerson, date, p.hospStartTime, p.hospEndTime)>>
        lane == <<WindowEvent("ODC Lane", date, p.laneStartTime, p.laneEndTime)>>
        offOdc == IF p.showOff
                  THEN <<WindowEvent("OFF " \o odcPerson, date, p.odcStartTime, p.odcEndTime)>>
                  ELSE <<>>
        offOff == IF p.doubleOffOnLaneWeeks
                  THEN <<WindowEvent("OFF " \o offPerson, date, p.odcStartTime, p.odcEndTime)>>
                  ELSE <<>>
        odc  == <<WindowEvent("ODC " \o odcPerson, date, p.odcStartTime, p.odcEndTime)>>
        off  == IF p.showOff
                THEN <<WindowEvent("OFF " \o offPerson, date, p.odcStartTime, p.odcEndTime)>>
                ELSE <<>>
    IN  IF isLaneWeek(p, week)
        THEN hosp \o lane \o offOdc \o offOff
        ELSE hosp \o odc \o off

RolesDayShifts(p, week, date) ==
    LET people     == p.rotationOrder
        hospPerson == hospitalForWeek(people, week)
        odcPerson  == odcForWeek(people, week)
        offPerson  == offForWeek(people, week)
        hosp == <<WindowEvent("HOSPITAL " \o hospPerson, date, p.hospStartTime, p.hospEndTime)>>
        lane == <<WindowEvent("ODC Lane", date, p.laneStartTime, p.laneEndTime)>>
        offOdc == IF p.showOff
                  THEN <<WindowEvent("OFF " \o odcPerson, date, p.odcStartTime, p.odcEndTime)>>
                  ELSE <<>>
        offOff == IF p.showOff /\ p.doubleOffOnLaneWeeks
                  THEN <<WindowEvent("OFF " \o offPerson, date, p.odcStartTime, p.odcEndTime)>>
                  ELSE <<>>
        odc  == <<WindowEvent("ODC " \o odcPerson, date, p.odcStartTime, p.odcEndTime)>>
        off  == IF p.showOff
                THEN <<WindowEvent("OFF " \o offPerson, date, p.odcStartTime, p.odcEndTime)>>
                ELSE <<>>
    IN  IF isLaneWeek(p, week)
        THEN hosp \o lane \o offOdc \o offOff
        ELSE hosp \o odc \o off

\* Variant of SingleDayShifts: hideODCWhenLane hides the ODC event in
\* every week.
SingleDayShifts_HideAlways(p, week, date) ==
    LET person == personForWeek(p, week)
        hosp == <<WindowEvent("HOSPITAL " \o person, date, p.hospStartTime, p.hospEndTime)>>
        odc  == IF ~p.hideODCWhenLane
                THEN <<WindowEvent("ODC " \o person, date, p.odcStartTime, p.odcEndTime)>>
                ELSE <<>>
        lane == IF isLaneWeek(p, week)
                THEN <<WindowEvent("ODC Lane", date, p.laneStartTime, p.laneEndTime)>>
                ELSE <<>>
    IN  hosp \o odc \o lane

SingleDayShifts(p, week, date) ==
    LET person == personForWeek(p, week)
        hosp == <<WindowEvent("HOSPITAL " \o person, date, p.hospStartTime, p.hospEndTime)>>
        odc  == IF ~(p.hideODCWhenLane /\ isLaneWeek(p, week))
                THEN <<WindowEvent("ODC " \o person, date, p.odcStartTime, p.odcEndTime)>>
                ELSE <<>>
        lane == IF isLaneWeek(p, week)
                THEN <<WindowEvent("ODC Lane", date, p.laneStartTime, p.laneEndTime)>>
                ELSE <<>>
    IN  hosp \o odc \o lane

DayShifts(v, p, week, date) ==
    IF v = "roles" THEN RolesDayShifts(p, week, date)
    ELSE SingleDayShifts(p, week, date)

\* for (let day = 0; day < 5; day++) { ...; if (date > end) break; ... }
RECURSIVE WeekdayLoop(_, _, _, _, _, _)
WeekdayLoop(v, p, week, weekStart, end, day) ==
    IF day >= 5 THEN <<>>
    ELSE LET date == addDays(weekStart, day)
         IN  IF date > end THEN <<>>
             ELSE DayShifts(v, p, week, date)
                    \o WeekdayLoop(v, p, week, weekStart, end, day + 1)

\* The person a non-lane weekend is titled with.
WeekendPerson(v, p, week) ==
    IF v = "roles" THEN hospitalForWeek(p.rotationOrder, week)
    ELSE personForWeek(p, week)

\* Variant of WeekendShifts: the weekend event is pushed without the test
\* of sat against end.
WeekendShifts_NoRangeTest(v, p, week, weekStart, end) ==
    LET sat == addDays(weekStart, 5)
        sun == addDays(weekStart, 6)
        ws  == parseTime(p.weekendStartTime)
        we  == parseTime(p.weekendEndTime)
        weekendTitle == IF isLaneWeekend(p, week) THEN "Weekend Lane"
                        ELSE "Weekend " \o WeekendPerson(v, p, week)
    IN  <<buildEvent(weekendTitle, setHours(sat, ws.h, ws.m), setHours(sun, we.h, we.m))>>

\* The weekend block of one week: one event from sat to sun if sat <= end.
WeekendShifts(v, p, week, weekStart, end) ==
    LET sat == addDays(weekStart, 5)
        sun == addDays(weekStart, 6)
        ws  == parseTime(p.weekendStartTime)
        we  == parseTime(p.weekendEndTime)
        weekendTitle == IF isLaneWeekend(p, week) THEN "Weekend Lane"
                        ELSE "Weekend " \o WeekendPerson(v, p, week)
    IN  IF sat <= end
        THEN <<buildEvent(weekendTitle, setHours(sat, ws.h, ws.m), setHours(sun, we.h, we.m))>>
        ELSE <<>>

\* for (let week = 0; week < weeksTotal; week++) { ... }
RECURSIVE WeekLoop(_, _, _, _, _, _)
WeekLoop(v, p, start, end, weeksTotal, week) ==
    IF week >= weeksTotal THEN <<>>
    ELSE LET weekStart == addDays(start, week * 7)
         IN  WeekdayLoop(v, p, week, weekStart, end, 0)
               \o WeekendShifts(v, p, week, weekStart, end)
               \o WeekLoop(v, p, start, end, weeksTotal, week + 1)

\* The comparator (a, b) => a.start - b.start
CompareStart(a, b) == a.start - b.start

\* Variant of SortByStart: the list is returned as it was pushed.
SortByStart_Unsorted(shifts) == shifts

\* shifts.sort(CompareStart): Array.prototype.sort is stable, and so is
\* SortSeq (an insertion sort) when given the strict order of the comparator.
SortByStart(shifts) == SortSeq(shifts, LAMBDA a, b : CompareStart(a, b) < 0)

\* The validation of the rotation order: only the "roles" page has one.
RotationTooShort(v, p) == v = "roles" /\ Len(p.rotationOrder) < 3

RotationError == "Rotation order must include at least 3 people (Hospital / ODC / OFF)."

\* generateSchedule(params): either throws or returns the sorted shifts.
generateSchedule(v, p, offset) ==
    LET start     == NewDateFromISO(p.startDate, offset)
        totalDays == TotalDays(p.yearsK)
        end       == addDays(start, totalDays)
        weeksTotal == WeeksTotal(totalDays)
    IN  IF RotationTooShort(v, p)
        THEN [threw |-> TRUE, message |-> RotationError, shifts |-> <<>>]
        ELSE [threw |-> FALSE, message |-> "",
              shifts |-> SortByStart(WeekLoop(v, p, start, end, weeksTotal, 0))]

(***************************************************************************)
(* iCal export.                                                            *)
(***************************************************************************)
\* crypto.randomUUID(): the i-th identifier of a call whose generator state
\* is seed; identifiers of one call are pairwise distinct.
randomUUID(seed, i) == "uuid-" \o ToString(seed) \o "-" \o ToString(i)

\* Variant of VEventLines: DTEND is formatted from the start of the event.
VEventLines_EndFromStart(e, seed, now, i) ==
    << "BEGIN:VEVENT",
       "UID:" \o randomUUID(seed, i),
       "DTSTAMP:" \o toICSDateTime(now),
       "SUMMARY:" \o e.title,
       "DTSTART:" \o toICSDateTime(e.start),
       "DTEND:" \o toICSDateTime(e.start),
       "END:VEVENT" >>

\* The seven lines pushed for the i-th event.
VEventLines(e, seed, now, i) ==
    << "BEGIN:VEVENT",
       "UID:" \o randomUUID(seed, i),
       "DTSTAMP:" \o toICSDateTime(now),
       "SUMMARY:" \o e.title,
       "DTSTART:" \o toICSDateTime(e.start),
       "DTEND:" \o toICSDateTime(e.end),
       "END:VEVENT" >>

\* for (const e of events) { ... }: the blocks of the events from..to, in
\* order (concatenated by halves).
RECURSIVE EventLoop(_, _, _, _, _)
EventLoop(events, seed, now, from, to) ==
    IF from > to THEN <<>>
    ELSE IF from = to THEN VEventLines(events[from], seed, now, from)
    ELSE LET mid == (from + to) \div 2
         IN  EventLoop(events, seed, now, from, mid)
               \o EventLoop(events, seed, now, mid + 1, to)

\* The array lines of exportICS when it reaches the join.
ICSLines(events, seed, now) ==
    <<"BEGIN:VCALENDAR", "VERSION:2.0", "PRODID:-//ShiftScheduler//EN">>
      \o EventLoop(events, seed, now, 1, Len(events))
      \o <<"END:VCALENDAR">>

\* lines.join(sep), for the elements lo..hi: the elements in order with sep
\* between neighbours (joined by halves, which gives the same text).
RECURSIVE JoinRange(_, _, _, _)
JoinRange(lines, sep, lo, hi) ==
    IF lo > hi THEN ""
    ELSE IF lo = hi THEN lines[lo]
    ELSE LET mid == (lo + hi) \div 2
         IN  JoinRange(lines, sep, lo, mid) \o sep \o JoinRange(lines, sep, mid + 1, hi)

Join(lines, sep) == JoinRange(lines, sep, 1, Len(lines))

exportICS(events, seed, now) == Join(ICSLines(events, seed, now), "\r\n")

(***************************************************************************)
(* The form.                                                               *)
(***************************************************************************)
\* Day number of the start date tried: 2024-12-30, a Monday; the span
\* crosses a year end.
StartDates == {20087}

\* Local zones tried: UTC-5 (a date-only string then falls on the evening
\* of the day before) and UTC.
TzOffsets == {0 - 300, 0}

\* What is typed into the rotation order field, split on ","
\* and trimmed; an entry may be blank.
RotationTexts == { <<>>, <<"A", "B">>, <<"A", "", "B", "C">>, <<"A", "B", "C", "D">> }

\* The names a title can carry.
PersonNames == {"A", "B", "C", "D", "undefined"}

\* Time-of-day windows: ones where the on-call window starts before the
\* hospital window, and ones whose numerals roll over into other days.
TimeSetups ==
    { [hospStartTime |-> <<8, 0>>,  hospEndTime |-> <<17, 0>>,
       odcStartTime  |-> <<6, 0>>,  odcEndTime  |-> <<12, 0>>,
       laneStartTime |-> <<5, 0>>,  laneEndTime |-> <<9, 0>>,
       weekendStartTime |-> <<6, 0>>, weekendEndTime |-> <<23, 59>>],
      [hospStartTime |-> <<25, 99>>, hospEndTime |-> <<30, 0>>,
       odcStartTime  |-> <<7, 0>>,  odcEndTime  |-> <<49, 0>>,
       laneStartTime |-> <<0, 0>>,  laneEndTime |-> <<24, 0>>,
       weekendStartTime |-> <<80, 0>>, weekendEndTime |-> <<23, 59>>] }

LanePatterns == {0, 1, 4}
LaneWeekendChoices == {0, 1, 2}
RotationWeeksChoices == {0, 2}

CommonFields(yearsKs, texts, setups, patterns, weekends) ==
    { [startDate |-> sd, yearsK |-> yk, rotationText |-> rt, times |-> ts,
       lanePatternWeeks |-> lp, laneWeekendEvery |-> lw] :
         sd \in StartDates, yk \in yearsKs, rt \in texts,
         ts \in setups, lp \in patterns, lw \in weekends }

\* The fields only one of the pages has.
ExtraFields(v) ==
    IF v = "roles"
    THEN { [showOff |-> so, doubleOffOnLaneWeeks |-> dbl] : so \in BOOLEAN, dbl \in BOOLEAN }
    ELSE { [rotationWeeks |-> rw, hideODCWhenLane |-> hide] :
             rw \in RotationWeeksChoices, hide \in BOOLEAN }

\* The forms the generator is tried on.
Forms(v) ==
    { [common |-> c, extra |-> x] :
        c \in CommonFields({7 * k : k \in 0..MaxYearsSteps}, RotationTexts, TimeSetups,
                           LanePatterns, LaneWeekendChoices),
        x \in ExtraFields(v) }

\* The forms the user switches between in the click-sequence specification.
UIForms(v) ==
    { f \in { [common |-> c, extra |-> x] :
                c \in CommonFields({0, 21}, {<<"A", "B">>, <<"A", "", "B", "C">>},
                                   {CHOOSE ts \in TimeSetups : ts.hospStartTime = <<8, 0>>},
                                   {1}, {2}),
                x \in ExtraFields(v) } :
        IF v = "roles" THEN f.extra.showOff /\ f.extra.doubleOffOnLaneWeeks
        ELSE f.extra.rotationWeeks = 2 /\ f.extra.hideODCWhenLane }

\* .filter(Boolean) drops the empty strings
RECURSIVE FilterNonEmpty(_)
FilterNonEmpty(s) ==
    IF s = <<>> THEN <<>>
    ELSE IF Head(s) = "" THEN FilterNonEmpty(Tail(s))
    ELSE <<Head(s)>> \o FilterNonEmpty(Tail(s))

\* getParamsFromUI(): the params object handed to generateSchedule
getParamsFromUI(v, f) ==
    LET c == f.common
        base == [startDate |-> c.startDate, yearsK |-> c.yearsK,
                 rotationOrder |-> FilterNonEmpty(c.rotationText),
                 hospStartTime |-> c.times.hospStartTime, hospEndTime |-> c.times.hospEndTime,
                 odcStartTime |-> c.times.odcStartTime, odcEndTime |-> c.times.odcEndTime,
                 laneStartTime |-> c.times.laneStartTime, laneEndTime |-> c.times.laneEndTime,
                 weekendStartTime |-> c.times.weekendStartTime,
                 weekendEndTime |-> c.times.weekendEndTime,
                 lanePatternWeeks |-> c.lanePatternWeeks,
                 laneWeekendEvery |-> c.laneWeekendEvery]
    IN  IF v = "roles"
        THEN base @@ [showOff |-> f.extra.showOff,
                      doubleOffOnLaneWeeks |-> f.extra.doubleOffOnLaneWeeks]
        ELSE base @@ [rotationWeeks |-> f.extra.rotationWeeks,
                      hideODCWhenLane |-> f.extra.hideODCWhenLane]

(***************************************************************************)
(* The page.                                                               *)
(***************************************************************************)
NoFile == [made |-> FALSE]
NoCall == [called |-> FALSE]
NoExport == [called |-> FALSE]

\* new Date() at the time of a download, for the wall clock sample k
NowAt(k) == NewDateFromISO(20400, 0) + 754 + k

\* The page after its script has run.  The markup is not part of the
\* sources, so the initial disabled attribute of the download button is
\* left to disabledSet.
PageInit(rolesForms, singleForms, tzSet, disabledSet) ==
    /\ variant \in {"roles", "single"}
    /\ tz \in tzSet
    /\ form \in (IF variant = "roles" THEN rolesForms ELSE singleForms)
    /\ lastEvents = <<>>
    /\ downloadDisabled \in disabledSet
    /\ alertMsg = ""
    /\ download = NoFile
    /\ lastCall = NoCall
    /\ lastGood = <<>>
    /\ lastExport = NoExport

\* Generator and exporter over the whole form space, with the download
\* button enabled by the first generation.
Init == PageInit(Forms("roles"), Forms("single"), {0 - 300}, {TRUE})

\* Click sequences over a few forms, any zone, any initial button state.
InitUI == PageInit(UIForms("roles"), UIForms("single"), TzOffsets, BOOLEAN)

\* The user changes the form.
EditForm ==
    /\ \E f \in UIForms(variant) : f # form /\ form' = f
    /\ UNCHANGED <<variant, tz, lastEvents, downloadDisabled, alertMsg,
                   download, lastCall, lastGood, lastExport>>

\* Variant of GenerateClick: the catch branch also empties lastEvents.
GenerateClick_ClearOnError ==
    LET params == getParamsFromUI(variant, form)
        r == generateSchedule(variant, params, tz)
    IN  /\ lastCall' = [called |-> TRUE, params |-> params, threw |-> r.threw,
                        returned |-> r.shifts]
        /\ IF r.threw
           THEN /\ alertMsg' = r.message
                /\ lastEvents' = <<>>
                /\ UNCHANGED <<downloadDisabled, lastGood>>
           ELSE /\ lastEvents' = r.shifts
                /\ downloadDisabled' = FALSE
                /\ lastGood' = r.shifts
                /\ UNCHANGED alertMsg
        /\ UNCHANGED <<variant, tz, form, download, lastExport>>

\* generateBtn click handler
GenerateClick ==
    LET params == getParamsFromUI(variant, form)
        r == generateSchedule(variant, params, tz)
    IN  /\ lastCall' = [called |-> TRUE, params |-> params, threw |-> r.threw,
                        returned |-> r.shifts]
        /\ IF r.threw
           THEN \* catch (err) { alert(err.message || String(err)); }
                /\ alertMsg' = r.message
                /\ UNCHANGED <<lastEvents, downloadDisabled, lastGood>>
           ELSE /\ lastEvents' = r.shifts
                /\ downloadDisabled' = FALSE
                /\ lastGood' = r.shifts
                /\ UNCHANGED alertMsg
        /\ UNCHANGED <<variant, tz, form, download, lastExport>>

\* downloadBtn click handler; a disabled button dispatches no click
DownloadClick ==
    /\ ~downloadDisabled
    /\ \E seed \in 0..MaxSeed :
         LET now == NowAt(seed) + tz
         IN  /\ download' = [made |-> TRUE, name |-> "shift_schedule.ics",
                             type |-> "text/calendar",
                             text |-> exportICS(lastEvents, seed, now)]
             /\ lastExport' = [called |-> TRUE, events |-> lastEvents,
                               lines |-> ICSLines(lastEvents, seed, now),
                               seed |-> seed, now |-> now]
    /\ UNCHANGED <<variant, tz, form, lastEvents, downloadDisabled, alertMsg,
                   lastCall, lastGood>>

Next == GenerateClick \/ DownloadClick

Spec == Init /\ [][Next]_vars

NextUI == EditForm \/ GenerateClick \/ DownloadClick

SpecUI == InitUI /\ [][NextUI]_vars

(***************************************************************************)
(* Vocabulary of the properties.  It is written from the parameters of the *)
(* recorded call, not with the operators of the generator.                 *)
(***************************************************************************)
CP == lastCall.params
Returned == lastCall.called /\ ~lastCall.threw
Result == lastCall.returned

\* floor(years * 365.25), years = yearsK / 1000
SpanDays == (CP.yearsK * 1461) \div 4000

\* Local midnight of the day start + d
DayBase(d) == (((CP.startDate * 1440 + tz) \div 1440) + d) * 1440

\* The time of day t = <<hours, minutes>> applied to the day start + d
At(d, t) == DayBase(d) + t[1] * 60 + t[2]

HospitalTitles == {"HOSPITAL " \o q : q \in PersonNames}
OdcTitles == {"ODC " \o q : q \in PersonNames}
OffTitles == {"OFF " \o q : q \in PersonNames}
WeekendTitles == {"Weekend Lane"} \cup {"Weekend " \o q : q \in PersonNames}

\* The positions of the returned list that hold an event with a title of
\* titles, the given start and the given end
Matches(titles, start, end) ==
    {i \in DOMAIN Result : /\ Result[i].title \in titles
                           /\ Result[i].start = start
                           /\ Result[i].end = end}

HospitalOn(d) == Matches(HospitalTitles, At(d, CP.hospStartTime), At(d, CP.hospEndTime))
OdcOn(d) == Matches(OdcTitles, At(d, CP.odcStartTime), At(d, CP.odcEndTime))
LaneOn(d) == Matches({"ODC Lane"}, At(d, CP.laneStartTime), At(d, CP.laneEndTime))
OffOn(d) == Matches(OffTitles, At(d, CP.odcStartTime), At(d, CP.odcEndTime))
WeekendOf(w) ==
    Matches(WeekendTitles, At(7 * w + 5, CP.weekendStartTime), At(7 * w + 6, CP.weekendEndTime))

TitledIn(titles) == {i \in DOMAIN Result : Result[i].title \in titles}

\* The weeks looked at: two more than the span has
ProbeWeeks == 0..((SpanDays \div 7) + 2)

\* The weeks the loop runs through
LoopWeeks == {w \in ProbeWeeks : 7 * w < SpanDays}

\* C1: the list generateSchedule returns is non-decreasing by start time.
C1_SortedByStart ==
    Returned =>
        \A i \in 1..(Len(Result) - 1) : Result[i].start <= Result[i + 1].start

\* C1 witness: a returned list in which an on-call event, pushed after the
\* hospital event of its day, stands right before it.
C1_Witness ==
    /\ Returned
    /\ \E i \in 1..(Len(Result) - 1) :
          /\ Result[i].title \in OdcTitles
          /\ Result[i + 1].title \in HospitalTitles
          /\ Result[i].start < Result[i + 1].start
          /\ Result[i].start \div 1440 = Result[i + 1].start \div 1440

\* C2: for every week w, the returned list holds exactly one weekend event of
\* week w if sat = start + 7w + 5 is not after end, and none otherwise; and
\* it holds no weekend event besides these.
C2_OneWeekendPerWeekInRange ==
    Returned =>
        /\ \A w \in ProbeWeeks :
              Cardinality(WeekendOf(w)) = IF 7 * w + 5 <= SpanDays THEN 1 ELSE 0
        /\ Cardinality(TitledIn(WeekendTitles))
             = Cardinality({w \in ProbeWeeks : 7 * w + 5 <= SpanDays})

\* C2 witness: a span that ends on the Saturday of week 1, so that both
\* weeks have their weekend event, the second one with sat = end.
C2_Witness ==
    /\ Returned
    /\ SpanDays = 12
    /\ Cardinality(WeekendOf(0)) = 1
    /\ Cardinality(WeekendOf(1)) = 1
    /\ Cardinality(WeekendOf(2)) = 0

\* The rotation order is empty or too short for the policy of the page.
OrderTooShort ==
    IF variant = "roles" THEN Len(CP.rotationOrder) < 3
    ELSE Len(CP.rotationOrder) = 0 \/ Len(CP.rotationOrder) < CP.rotationWeeks

\* C3: when the rotation order is empty or too short for the policy,
\* generateSchedule fails with the validation error and returns no schedule.
C3_TooShortFails ==
    (lastCall.called /\ OrderTooShort) =>
        /\ lastCall.threw
        /\ lastCall.returned = <<>>

\* C9: every day start + d with 0 <= d <= totalDays and d mod 7 < 5 has
\* exactly one HOSPITAL event, and no other day has one.
C9_EveryWeekdayOfSpanCovered ==
    Returned =>
        /\ \A d \in 0..SpanDays : d % 7 < 5 => Cardinality(HospitalOn(d)) = 1
        /\ Cardinality(TitledIn(HospitalTitles))
             = Cardinality({d \in 0..SpanDays : d % 7 < 5})

\* The weekdays of week w that are not after end
InRangeDays(w) == {7 * w + k : k \in 0..4} \cap (0..SpanDays)

\* w mod lanePatternWeeks = 0, w mod laneWeekendEvery = 0
LaneWeekC(w) == CP.lanePatternWeeks >= 1 /\ w % CP.lanePatternWeeks = 0
LaneWeekendC(w) == CP.laneWeekendEvery >= 1 /\ w % CP.laneWeekendEvery = 0

\* The name at position pos (from 0) of the rotation order
NameAt(pos) ==
    IF pos + 1 \in DOMAIN CP.rotationOrder THEN CP.rotationOrder[pos + 1] ELSE "undefined"

TitlesOf(positions) == {Result[i].title : i \in positions}

\* C4: on the 3-role page with n >= 3 entries, the roles of week w are taken
\* from the positions w mod n, (w+1) mod n and (w+2) mod n, which are
\* pairwise distinct; over any n consecutive weeks each role is held by
\* every position exactly once; and the events of the weeks generated are
\* titled with the names at these positions.
C4_RolesRotation ==
    (Returned /\ variant = "roles") =>
        LET order == CP.rotationOrder
            n == Len(order)
            Pos(role, w) == CASE role = "hospital" -> HospitalPos(w, n)
                              [] role = "odc" -> OdcPos(w, n)
                              [] role = "off" -> OffPos(w, n)
        IN  /\ n >= 3
            /\ \A w \in 0..MaxWeek :
                  /\ Pos("hospital", w) = w % n
                  /\ Pos("odc", w) = (w + 1) % n
                  /\ Pos("off", w) = (w + 2) % n
                  /\ Cardinality({Pos(role, w) : role \in {"hospital", "odc", "off"}}) = 3
                  /\ hospitalForWeek(order, w) = NameAt(w % n)
                  /\ odcForWeek(order, w) = NameAt((w + 1) % n)
                  /\ offForWeek(order, w) = NameAt((w + 2) % n)
                  /\ \A role \in {"hospital", "odc", "off"} : \A pos \in 0..(n - 1) :
                        Cardinality({u \in w..(w + n - 1) : Pos(role, u) = pos}) = 1
            /\ \A w \in LoopWeeks :
                  /\ TitlesOf(HospitalOn(7 * w)) = {"HOSPITAL " \o NameAt(w % n)}
                  /\ ~LaneWeekC(w) =>
                        TitlesOf(OdcOn(7 * w)) = {"ODC " \o NameAt((w + 1) % n)}
                  /\ (~LaneWeekC(w) /\ CP.showOff) =>
                        TitlesOf(OffOn(7 * w)) = {"OFF " \o NameAt((w + 2) % n)}

\* C4 witness: four people and two weeks generated, the second with
\* hospital B, on-call C, off D.
C4_Witness ==
    /\ Returned /\ variant = "roles"
    /\ Len(CP.rotationOrder) = 4
    /\ ~LaneWeekC(1) /\ CP.showOff
    /\ TitlesOf(HospitalOn(7)) = {"HOSPITAL B"}
    /\ TitlesOf(OdcOn(7)) = {"ODC C"}
    /\ TitlesOf(OffOn(7)) = {"OFF D"}

C6_Setting ==
    /\ Returned /\ variant = "roles"
    /\ (CP.startDate + 3) % 7 = 0
    /\ CP.rotationOrder = <<"A", "B", "C">>
    /\ CP.lanePatternWeeks = 4
    /\ CP.showOff /\ CP.doubleOffOnLaneWeeks

\* The list is the 21 events of week 0 of the scenario, with the weekend
\* event titled weekendTitle.
C6_Week0(weekendTitle) ==
    /\ Len(Result) = 21
    /\ \A d \in 0..4 :
          /\ Cardinality(HospitalOn(d)) = 1 /\ TitlesOf(HospitalOn(d)) = {"HOSPITAL A"}
          /\ Cardinality(LaneOn(d)) = 1
          /\ Cardinality(OffOn(d)) = 2 /\ TitlesOf(OffOn(d)) = {"OFF B", "OFF C"}
    /\ Cardinality(WeekendOf(0)) = 1
    /\ TitlesOf(WeekendOf(0)) = {weekendTitle}

\* C6 as stated: with years = 0 or totalDays = 7 and laneWeekendEvery
\* different from 1, the scenario gives 21 events and the weekend event is
\* titled "Weekend A".
C6_AsStated ==
    (C6_Setting /\ (CP.yearsK = 0 \/ SpanDays = 7) /\ CP.laneWeekendEvery # 1) =>
        C6_Week0("Weekend A")

\* C6 amended: with totalDays = 7 the scenario gives 21 events (5 x
\* HOSPITAL A, ODC Lane, OFF B, OFF C and one weekend event); the weekend
\* event is titled "Weekend Lane" for every non-zero laneWeekendEvery, as
\* week 0 is a lane weekend at every cadence, and "Weekend A" when
\* laneWeekendEvery is 0.
C6_Amended ==
    (C6_Setting /\ SpanDays = 7) =>
        C6_Week0(IF CP.laneWeekendEvery = 0 THEN "Weekend A" ELSE "Weekend Lane")

\* C6 witness: the scenario with totalDays = 7 and laneWeekendEvery = 2.
C6_Witness ==
    /\ C6_Setting /\ SpanDays = 7 /\ CP.laneWeekendEvery = 2
    /\ Len(Result) = 21
    /\ TitlesOf(WeekendOf(0)) = {"Weekend Lane"}

\* The duty person of week w on the single-role page
DutyName(w) ==
    IF CP.rotationWeeks >= 1 THEN NameAt(w % CP.rotationWeeks) ELSE "undefined"

\* The weekday part of C7: on every weekday the loop reaches, one HOSPITAL
\* event of the duty person; an "ODC {duty person}" event iff not
\* (hideODCWhenLane and lane week); an "ODC Lane" event iff lane week.
C7_Weekdays ==
    \A w \in LoopWeeks : \A d \in InRangeDays(w) :
        /\ Cardinality(HospitalOn(d)) = 1
        /\ TitlesOf(HospitalOn(d)) = {"HOSPITAL " \o DutyName(w)}
        /\ Cardinality(OdcOn(d)) = IF ~(CP.hideODCWhenLane /\ LaneWeekC(w)) THEN 1 ELSE 0
        /\ TitlesOf(OdcOn(d)) \subseteq {"ODC " \o DutyName(w)}
        /\ Cardinality(LaneOn(d)) = IF LaneWeekC(w) THEN 1 ELSE 0

RECURSIVE TotalLen(_, _, _)
TotalLen(lines, lo, hi) ==
    IF lo > hi THEN 0
    ELSE IF lo = hi THEN Len(lines[lo])
    ELSE LET mid == (lo + hi) \div 2
         IN  TotalLen(lines, lo, mid) + TotalLen(lines, mid + 1, hi)

\* lines is the document of events: 3 header lines, one block of 7 lines per
\* event in the order of events, with the fields in the fixed order and the
\* title, start and end of the event, then END:VCALENDAR; text is these
\* lines with CRLF between them.
ICSDocument(lines, text, events, seed, now) ==
    LET k == Len(events)
    IN  /\ Len(lines) = 3 + 7 * k + 1
        /\ lines[1] = "BEGIN:VCALENDAR"
        /\ lines[2] = "VERSION:2.0"
        /\ lines[3] = "PRODID:-//ShiftScheduler//EN"
        /\ lines[Len(lines)] = "END:VCALENDAR"
        /\ \A i \in 1..k :
              LET b == 3 + 7 * (i - 1)
              IN  /\ lines[b + 1] = "BEGIN:VEVENT"
                  /\ lines[b + 2] = "UID:" \o randomUUID(seed, i)
                  /\ lines[b + 3] = "DTSTAMP:" \o toICSDateTime(now)
                  /\ lines[b + 4] = "SUMMARY:" \o events[i].title
                  /\ lines[b + 5] = "DTSTART:" \o toICSDateTime(events[i].start)
                  /\ lines[b + 6] = "DTEND:" \o toICSDateTime(events[i].end)
                  /\ lines[b + 7] = "END:VEVENT"
                  /\ Len(lines[b + 5]) = 8 + 15
                  /\ Len(lines[b + 6]) = 6 + 15
        /\ \A i \in 1..k : \A j \in 1..k :
              i # j => lines[3 + 7 * (i - 1) + 2] # lines[3 + 7 * (j - 1) + 2]
        /\ Len(text) = TotalLen(lines, 1, Len(lines)) + 2 * (Len(lines) - 1)

\* C8: every exportICS call on a list of k events gives the 3 header lines,
\* k blocks of 7 lines in the fixed field order, the i-th block with the
\* title, start and end of the i-th event of the list as it was passed, and
\* END:VCALENDAR; the call leaves the list as it was.
C8_ExportDocument ==
    [][ lastExport' # lastExport =>
          /\ lastExport'.events = lastEvents
          /\ ICSDocument(lastExport'.lines, download'.text, lastEvents,
                         lastExport'.seed, lastExport'.now)
          /\ lastEvents' = lastEvents ]_vars

\* C8 witness: an export of a list with a HOSPITAL event on 1 January 2025
\* (the third day after a start on 29 December 2024 local time), from 08:00
\* to 17:00.
C8_Witness ==
    /\ lastExport.called
    /\ Len(lastExport.events) >= 2
    /\ \E j \in 2..(Len(lastExport.lines) - 1) :
          /\ lastExport.lines[j - 1] = "SUMMARY:HOSPITAL A"
          /\ lastExport.lines[j] = "DTSTART:20250101T080000"
          /\ lastExport.lines[j + 1] = "DTEND:20250101T170000"

\* C10: a successful Generate click replaces lastEvents by the list
\* returned and enables the download button; a Generate click that throws
\* (3-role page, fewer than 3 entries) changes neither; a Download click
\* serializes the list returned by the most recent successful Generate
\* click (the empty list if there is none) and leaves lastEvents as it was.
C10_DownloadSerializesLastGenerated ==
    [][ /\ lastEvents = lastGood
        /\ lastEvents' = lastGood'
        /\ (lastCall' # lastCall) =>
              /\ lastCall'.threw <=>
                    (variant = "roles" /\ Len(lastCall'.params.rotationOrder) < 3)
              /\ lastCall'.threw =>
                    /\ lastEvents' = lastEvents
                    /\ downloadDisabled' = downloadDisabled
              /\ ~lastCall'.threw =>
                    /\ lastEvents' = lastCall'.returned
                    /\ downloadDisabled' = FALSE
        /\ (lastExport' # lastExport) =>
              /\ lastExport'.events = lastGood
              /\ Len(lastExport'.lines) = 3 + 7 * Len(lastGood) + 1
              /\ lastEvents' = lastEvents ]_vars

\* C10 witness: the last Generate click threw after an earlier one had
\* returned a non-empty list, and that list is what the last Download
\* click serialized.
C10_Witness ==
    /\ lastCall.called /\ lastCall.threw
    /\ lastGood # <<>>
    /\ lastEvents = lastGood
    /\ ~downloadDisabled
    /\ lastExport.called /\ lastExport.events = lastGood

====
